---- MODULE Spec2Model ----
(***************************************************************************)
(* Model of matchbox_server_wasm: the room / peer registry of              *)
(* state.rs and the request handlers of handler.rs.                        *)
(*                                                                         *)
(* The persisted snapshot (matchbox_state.json) is the variable `store`.   *)
(* Every public operation of ServerState is InnerState::load(), a mutation *)
(* of the loaded value, and InnerState::save().  The mutations are the     *)
(* operators JoinOrPollFn, JoinRoomInner, QueueEventFn and RemovePeerFn,   *)
(* which work on a snapshot value; the actions apply them to `store`.      *)
(*                                                                         *)
(* Spec is the sequential program: one operation runs from its load() to  *)
(* its save() before the next starts, the state file is read and written  *)
(* without error, and no other process touches it.  SpecStreams is the    *)
(* same program with another history kept, SpecFair adds clients that     *)
(* keep polling, SpecFail a file system whose writes can fail, and        *)
(* SpecConc two instances that serve requests at the same time, each      *)
(* operation being a load step and a commit step.                         *)
(*                                                                         *)
(* Uuid::new_v4 is random; it is modelled as handing out 1, 2, .. in turn: *)
(* an id is never handed out twice, and a client knows only the ids handed *)
(* out so far and ids the server never hands out (Foreign).                *)
(*                                                                         *)
(* History labels.  Every element pushed onto a VecDeque<String> is the    *)
(* record [ev, to, n]: `ev` is the string the code pushes, `to` and `n`    *)
(* label the push_back call that produced it (the n-th push onto the queue *)
(* of peer `to`).  The code never reads the labels; they let the           *)
(* properties tell two equal strings apart.                                *)
(***************************************************************************)
EXTENDS Integers, Sequences, FiniteSets, TLC

\* Number of peer ids uuid::Uuid::new_v4 can hand out in one run.
MaxPeers == 2
\* Number of signals accepted by queue_event in one run.
MaxSignals == 1
\* Number of writes of the state file that fail in one run.
MaxFaults == 1

\* Room names a client may put in the request path.
Rooms == {"r1", "r2"}
\* Option::None for an absent or unparsable peer id.
None == -1
\* A well-formed uuid that the server never minted.
Foreign == 0
\* The ids new_v4 hands out, in the order it hands them out.
PeerIds == 1..MaxPeers
\* The `data` values of a PeerRequest::Signal.
Data == {"offer"}

VARIABLES
    store,      \* contents of STATE_FILE: [peers, rooms]
    nextId,     \* the next id Uuid::new_v4 returns
    pushed,     \* history: pushed[p] = number of push_back calls on p's queue
                \*   made by operations whose write succeeded
    earlier,    \* history: labels of the events join_or_poll returned before
                \*   the last operation
    removed,    \* history: the peers remove_peer was called for while registered
    pre,        \* the snapshot the last operation loaded
    last,       \* the last operation: its arguments and its result
    nsignals,   \* number of signals queued so far
    delivered,  \* history: delivered[p] = the NewPeer and PeerLeft events
                \*   join_or_poll returned to p, in the order of delivery
    recording,  \* which history is kept in this run, fixed by the initial
                \*   state: "labels" (pre, last, earlier), "streams"
                \*   (delivered), "failures" (pre and last of the operations
                \*   whose write failed) or "none"
    fault,      \* how the next std::fs::write of the state file ends: "none"
                \*   (it succeeds), "kept" or "truncated"
    nfaults,    \* number of writes that failed so far
    inflight,   \* inflight[i] = the request instance i is serving, with the
                \*   snapshot its load() returned
    accepted    \* history: the queue elements of the signals for which
                \*   queue_event returned Ok in an interleaved run, until they
                \*   are returned by a poll or their receiver is removed

vars == <<store, nextId, pushed, earlier, removed, pre, last, nsignals, delivered,
          recording, fault, nfaults, inflight, accepted>>


----------------------------------------------------------------------------
\* Helpers for maps with a changing key set (HashMap).

Range(s) == {s[i] : i \in DOMAIN s}

EmptyMap == [x \in {} |-> {}]

\* HashMap::insert
MapInsert(m, k, v) == [x \in DOMAIN m \cup {k} |-> IF x = k THEN v ELSE m[x]]

\* (a remove that leaves the entry in the map)
MapRemoveKeeps(m, k) == m
\* HashMap::remove
MapRemove(m, k) == [x \in DOMAIN m \ {k} |-> m[x]]

\* (a remove that leaves the element in the set)
SetRemoveKeeps(S, x) == S
\* HashSet::remove
SetRemove(S, x) == S \ {x}

\* The orders in which iterating a HashSet can yield its elements.
IterOrders(S) == {s \in [1..Cardinality(S) -> S] : Range(s) = S}

----------------------------------------------------------------------------
\* JsonPeerEvent values; to_string is injective, so the value stands for the string.

IdAssigned(p) == [type |-> "IdAssigned", peer |-> p, data |-> ""]
NewPeer(p) == [type |-> "NewPeer", peer |-> p, data |-> ""]
PeerLeft(p) == [type |-> "PeerLeft", peer |-> p, data |-> ""]
Signal(s, d) == [type |-> "Signal", peer |-> s, data |-> d]

\* No event: the handler built none.
NoEvent == [type |-> "", peer |-> None, data |-> ""]

\* One element of a queue: the string and the label of its push_back.
Entry(ev, to, n) == [ev |-> ev, to |-> to, n |-> n]

\* The strings of a sequence of queue elements (Vec<String> on the wire).
Strings(q) == [i \in 1..Len(q) |-> q[i].ev]

\* The labels of a sequence of queue elements.
Labels(q) == {<<q[i].to, q[i].n>> : i \in 1..Len(q)}

\* The NewPeer and PeerLeft events of a sequence of events, in order.
Membership(s) ==
    LET IsMembership(e) == e.type \in {"NewPeer", "PeerLeft"}
    IN  SelectSeq(s, IsMembership)

\* InnerState::default()
DefaultState == [peers |-> EmptyMap, rooms |-> EmptyMap]

\* (a write that leaves in the file the peers of the old contents that the new
\* contents do not mention)
SaveFnMerges(old, new, outcome) ==
    [peers |-> [p \in DOMAIN old.peers \cup DOMAIN new.peers |->
                   IF p \in DOMAIN new.peers THEN new.peers[p] ELSE old.peers[p]],
     rooms |-> [r \in DOMAIN old.rooms \cup DOMAIN new.rooms |->
                   (IF r \in DOMAIN new.rooms THEN new.rooms[r] ELSE {})
                   \cup {p \in DOMAIN old.peers \ DOMAIN new.peers : old.peers[p].room = r}]]
\* (a write that reports an error after the new contents reached the file)
SaveFnWritesAnyway(old, new, outcome) == new
\* InnerState::save: the snapshot a later load() returns.  std::fs::write
\* creates or truncates the file and then writes; its error is dropped.  A
\* failure to open leaves the file as it was; a failure after the truncation
\* leaves an empty or partial file, which load() reads as the default state.
SaveFn(old, new, outcome) ==
    CASE outcome = "none" -> new
      [] outcome = "kept" -> old
      [] outcome = "truncated" -> DefaultState

\* (push_front instead of push_back)
PushFrontAll(peers, cnt, targets, ev) ==
    [p \in DOMAIN peers |->
        IF p \in targets
        THEN [peers[p] EXCEPT !.events = <<Entry(ev, p, cnt[p] + 1)>> \o @]
        ELSE peers[p]]
\* (the event is pushed to every registered peer, whatever `targets` is)
PushBackEveryone(peers, cnt, targets, ev) ==
    [p \in DOMAIN peers |->
        [peers[p] EXCEPT !.events = Append(@, Entry(ev, p, cnt[p] + 1))]]
\* events.push_back(ev) on the queue of each peer of `targets`: one push per
\* peer, labelled with that peer's push count.
PushBackAll(peers, cnt, targets, ev) ==
    [p \in DOMAIN peers |->
        IF p \in targets
        THEN [peers[p] EXCEPT !.events = Append(@, Entry(ev, p, cnt[p] + 1))]
        ELSE peers[p]]

\* The push counts after PushBackAll.
CountAll(peers, cnt, targets) ==
    [p \in DOMAIN cnt |-> IF p \in targets \cap DOMAIN peers THEN cnt[p] + 1 ELSE cnt[p]]

\* state.rooms.get(&room_id).map(|peers| ...collect()).unwrap_or_default(), as a set.
RoomMembers(state, room_id) ==
    IF room_id \in DOMAIN state.rooms THEN state.rooms[room_id] ELSE {}

\* peer_state.events.drain(..).collect(): the elements returned, the queue left.
Drained(q) == q
AfterDrain(q) == <<>>

\* (the new peer is announced to itself instead of being told who is there)
InitialEventsSelf(peer_id, n0, existing_peers) ==
    [i \in 1..(Len(existing_peers) + 1) |->
        IF i = 1
        THEN Entry(IdAssigned(peer_id), peer_id, n0 + 1)
        ELSE Entry(NewPeer(peer_id), peer_id, n0 + i)]
\* The events queued in the new PeerState: IdAssigned first, then one NewPeer
\* per existing peer, in Vec order.
InitialEvents(peer_id, n0, existing_peers) ==
    [i \in 1..(Len(existing_peers) + 1) |->
        IF i = 1
        THEN Entry(IdAssigned(peer_id), peer_id, n0 + 1)
        ELSE Entry(NewPeer(existing_peers[i - 1]), peer_id, n0 + i)]

\* ServerState::join_room_inner.  `peer_id` is the value of Uuid::new_v4(),
\* `existing_peers` the Vec collected from the room's HashSet.
JoinRoomInner(state, cnt, room_id, peer_id, existing_peers) ==
    LET n0 == cnt[peer_id]
        own == InitialEvents(peer_id, n0, existing_peers)
        peer_state == [room |-> room_id, events |-> own]
        peers1 == MapInsert(state.peers, peer_id, peer_state)
        cnt1 == [cnt EXCEPT ![peer_id] = n0 + Len(own)]
        \* state.rooms.entry(room_id).or_default().insert(peer_id)
        rooms1 == MapInsert(state.rooms, room_id, RoomMembers(state, room_id) \cup {peer_id})
        \* if let Some(existing_peer) = state.peers.get_mut(existing_id)
        peers2 == PushBackAll(peers1, cnt1, Range(existing_peers), NewPeer(peer_id))
        cnt2 == CountAll(peers1, cnt1, Range(existing_peers))
        \* state.peers.get_mut(&peer_id).map(|p| p.events.drain(..).collect())
        events == Drained(peers2[peer_id].events)
        peers3 == [peers2 EXCEPT ![peer_id].events = AfterDrain(@)]
    IN  [state |-> [peers |-> peers3, rooms |-> rooms1],
         cnt |-> cnt2, id |-> peer_id, events |-> events]

\* (a poll that returns the queue without draining it)
JoinOrPollFnPeeks(state, cnt, room_id, peer_id, fresh, existing_peers) ==
    IF peer_id # None /\ peer_id \in DOMAIN state.peers
    THEN [state |-> state, cnt |-> cnt, id |-> peer_id,
          events |-> Drained(state.peers[peer_id].events)]
    ELSE JoinRoomInner(state, cnt, room_id, fresh, existing_peers)
\* (an unknown id the client supplies is registered as it is)
JoinOrPollFnReuses(state, cnt, room_id, peer_id, fresh, existing_peers) ==
    IF peer_id # None /\ peer_id \in DOMAIN state.peers
    THEN [state |-> [state EXCEPT !.peers[peer_id].events = AfterDrain(@)],
          cnt |-> cnt, id |-> peer_id,
          events |-> Drained(state.peers[peer_id].events)]
    ELSE IF peer_id \in DOMAIN cnt
    THEN JoinRoomInner(state, cnt, room_id, peer_id, existing_peers)
    ELSE JoinRoomInner(state, cnt, room_id, fresh, existing_peers)
\* (a poll moves the peer into the room named in the path)
JoinOrPollFnMoves(state, cnt, room_id, peer_id, fresh, existing_peers) ==
    IF peer_id # None /\ peer_id \in DOMAIN state.peers
    THEN LET old == state.peers[peer_id].room
             rooms1 == MapInsert(state.rooms, old, RoomMembers(state, old) \ {peer_id})
             rooms2 == MapInsert(rooms1, room_id, RoomMembers([rooms |-> rooms1], room_id) \cup {peer_id})
         IN  [state |-> [peers |-> [state.peers EXCEPT ![peer_id] =
                                        [room |-> room_id, events |-> AfterDrain(@.events)]],
                         rooms |-> rooms2],
              cnt |-> cnt, id |-> peer_id,
              events |-> Drained(state.peers[peer_id].events)]
    ELSE JoinRoomInner(state, cnt, room_id, fresh, existing_peers)
\* (a poll hands out one event at a time, as with pop_front)
JoinOrPollFnPopsOne(state, cnt, room_id, peer_id, fresh, existing_peers) ==
    IF peer_id # None /\ peer_id \in DOMAIN state.peers
    THEN LET q == state.peers[peer_id].events
         IN  [state |-> [state EXCEPT !.peers[peer_id].events =
                                         IF q = <<>> THEN <<>> ELSE Tail(q)],
              cnt |-> cnt, id |-> peer_id,
              events |-> IF q = <<>> THEN <<>> ELSE <<Head(q)>>]
    ELSE JoinRoomInner(state, cnt, room_id, fresh, existing_peers)
\* ServerState::join_or_poll between load() and save().
JoinOrPollFn(state, cnt, room_id, peer_id, fresh, existing_peers) ==
    IF peer_id # None /\ peer_id \in DOMAIN state.peers
    THEN [state |-> [state EXCEPT !.peers[peer_id].events = AfterDrain(@)],
          cnt |-> cnt, id |-> peer_id,
          events |-> Drained(state.peers[peer_id].events)]
    ELSE JoinRoomInner(state, cnt, room_id, fresh, existing_peers)

\* (an unknown receiver gets a queue, as with entry().or_default())
QueueEventFnUpsert(state, cnt, peer_id, event) ==
    IF peer_id \in DOMAIN state.peers
    THEN [state |-> [state EXCEPT !.peers = PushBackAll(@, cnt, {peer_id}, event)],
          cnt |-> CountAll(state.peers, cnt, {peer_id}),
          result |-> "Ok"]
    ELSE [state |-> [state EXCEPT !.peers = MapInsert(@, peer_id,
                        [room |-> "", events |-> <<Entry(event, peer_id, 1)>>])],
          cnt |-> cnt, result |-> "Ok"]
\* (the event is pushed to every peer of the receiver's room)
QueueEventFnFansOut(state, cnt, peer_id, event) ==
    IF peer_id \in DOMAIN state.peers
    THEN LET targets == RoomMembers(state, state.peers[peer_id].room)
         IN  [state |-> [state EXCEPT !.peers = PushBackAll(@, cnt, targets, event)],
              cnt |-> CountAll(state.peers, cnt, targets),
              result |-> "Ok"]
    ELSE [state |-> state, cnt |-> cnt, result |-> "UnknownPeer"]
\* ServerState::queue_event between load() and save().
QueueEventFn(state, cnt, peer_id, event) ==
    IF peer_id \in DOMAIN state.peers
    THEN [state |-> [state EXCEPT !.peers = PushBackAll(@, cnt, {peer_id}, event)],
          cnt |-> CountAll(state.peers, cnt, {peer_id}),
          result |-> "Ok"]
    ELSE [state |-> state, cnt |-> cnt, result |-> "UnknownPeer"]

\* (every remaining peer is notified, whatever its room)
OtherPeerIdsAll(peers, rooms, room_id) == DOMAIN peers
\* other_peer_ids: the members left in the removed peer's room.
OtherPeerIds(peers, rooms, room_id) ==
    IF room_id \in DOMAIN rooms THEN rooms[room_id] ELSE {}

\* (the peer is dropped without telling the room)
RemovePeerFnSilent(state, cnt, peer_id) ==
    IF peer_id \in DOMAIN state.peers
    THEN LET peer_state == state.peers[peer_id]
             peers1 == MapRemove(state.peers, peer_id)
             rooms1 == IF peer_state.room \in DOMAIN state.rooms
                       THEN [state.rooms EXCEPT
                                ![peer_state.room] = SetRemove(@, peer_id)]
                       ELSE state.rooms
         IN  [state |-> [peers |-> peers1, rooms |-> rooms1], cnt |-> cnt]
    ELSE [state |-> state, cnt |-> cnt]
\* ServerState::remove_peer between load() and save().
RemovePeerFn(state, cnt, peer_id) ==
    IF peer_id \in DOMAIN state.peers
    THEN LET peer_state == state.peers[peer_id]
             peers1 == MapRemove(state.peers, peer_id)
             rooms1 == IF peer_state.room \in DOMAIN state.rooms
                       THEN [state.rooms EXCEPT
                                ![peer_state.room] = SetRemove(@, peer_id)]
                       ELSE state.rooms
             other_peer_ids == OtherPeerIds(peers1, rooms1, peer_state.room)
         IN  [state |-> [peers |-> PushBackAll(peers1, cnt, other_peer_ids, PeerLeft(peer_id)),
                         rooms |-> rooms1],
              cnt |-> CountAll(peers1, cnt, other_peer_ids)]
    ELSE [state |-> state, cnt |-> cnt]

\* (every registered peer is listed, whatever its room)
GetRoomPeersFnAll(state, room_id) == DOMAIN state.peers
\* ServerState::get_room_peers, as the set of the Vec's elements.
GetRoomPeersFn(state, room_id) == RoomMembers(state, room_id)

----------------------------------------------------------------------------
\* handler.rs

\* The ids a client can know: those handed out so far, and a foreign uuid.
Minted == 1..(nextId - 1)
ClientIds == Minted \cup {Foreign}

\* The values of the X-Peer-Id header after parsing: None when the header is
\* missing or not a uuid, else the id of a peer that joined at some time.
Headers == Minted \cup {None}

\* The bodies of POST /signal that decode to PeerRequest::Signal.
SignalBodies ==
    {[kind |-> "Signal", receiver |-> r, data |-> d] : r \in ClientIds, d \in Data}

\* The other bodies: unreadable, not a JsonPeerRequest, and "KeepAlive".
OtherBodies ==
    {[kind |-> k, receiver |-> None, data |-> ""] : k \in {"unreadable", "invalid", "KeepAlive"}}

\* The requests to POST /signal.  A body other than a Signal is sent by the
\* peer that joined first: the handler never uses the sender on those paths.
\* A KeepAlive is also sent without a usable header.
SignalRequests ==
    {[header |-> h, body |-> b] : h \in Headers, b \in SignalBodies}
    \cup {[header |-> h, body |-> b] : h \in Minted \cap {1}, b \in OtherBodies}
    \cup {[header |-> None, body |-> b] : b \in {o \in OtherBodies : o.kind = "KeepAlive"}}

\* (the event names the receiver as its sender)
HandleSignalFnSwaps(state, cnt, header, body) ==
    IF header = None \/ body.kind \in {"unreadable", "invalid"}
    THEN [state |-> state, cnt |-> cnt, status |-> 400, called |-> FALSE,
          event |-> NoEvent, result |-> ""]
    ELSE IF body.kind = "KeepAlive"
    THEN [state |-> state, cnt |-> cnt, status |-> 200, called |-> FALSE,
          event |-> NoEvent, result |-> ""]
    ELSE LET signal_event == Signal(body.receiver, body.data)
             r == QueueEventFn(state, cnt, body.receiver, signal_event)
         IN  [state |-> r.state, cnt |-> r.cnt,
              status |-> IF r.result = "Ok" THEN 200 ELSE 404,
              called |-> TRUE, event |-> signal_event, result |-> r.result]
\* (a request without a usable header is queued with the nil uuid as sender)
HandleSignalFnAnonymous(state, cnt, header, body) ==
    IF body.kind \in {"unreadable", "invalid"}
    THEN [state |-> state, cnt |-> cnt, status |-> 400, called |-> FALSE,
          event |-> NoEvent, result |-> ""]
    ELSE IF body.kind = "KeepAlive"
    THEN [state |-> state, cnt |-> cnt, status |-> 200, called |-> FALSE,
          event |-> NoEvent, result |-> ""]
    ELSE LET sender_id == IF header = None THEN Foreign ELSE header
             signal_event == Signal(sender_id, body.data)
             r == QueueEventFn(state, cnt, body.receiver, signal_event)
         IN  [state |-> r.state, cnt |-> r.cnt,
              status |-> IF r.result = "Ok" THEN 200 ELSE 404,
              called |-> TRUE, event |-> signal_event, result |-> r.result]
\* handle_signal: the status answered, whether queue_event ran, and what it did.
\* `header` is the parsed X-Peer-Id header, None when missing or not a uuid.
HandleSignalFn(state, cnt, header, body) ==
    IF header = None \/ body.kind \in {"unreadable", "invalid"}
    THEN [state |-> state, cnt |-> cnt, status |-> 400, called |-> FALSE,
          event |-> NoEvent, result |-> ""]
    ELSE IF body.kind = "KeepAlive"
    THEN [state |-> state, cnt |-> cnt, status |-> 200, called |-> FALSE,
          event |-> NoEvent, result |-> ""]
    ELSE LET signal_event == Signal(header, body.data)
             r == QueueEventFn(state, cnt, body.receiver, signal_event)
         IN  [state |-> r.state, cnt |-> r.cnt,
              status |-> IF r.result = "Ok" THEN 200 ELSE 404,
              called |-> TRUE, event |-> signal_event, result |-> r.result]

----------------------------------------------------------------------------
\* The instances of the component that serve requests at the same time: the
\* host starts one per request, all on the same state file.
Instances == {"a", "b"}

\* What an instance is doing: nothing, or an operation between its load() and
\* its save(), with the snapshot loaded.
Idle == [op |-> "idle", room |-> "", peer |-> None, sender |-> None, data |-> "",
         state |-> DefaultState]

\* The record kept of the last operation.
NoOp == [op |-> "none", room |-> "", peer |-> None, sender |-> None, body |-> "",
         data |-> "", id |-> None, events |-> <<>>, status |-> 0, called |-> FALSE,
         event |-> NoEvent, result |-> "", list |-> {}, saved |-> "none"]

\* The record kept of the operation now taken, and of the snapshot it
\* loaded: all of them, those whose write failed, or none, as the run records.
Kept(op) ==
    CASE recording = "streams" -> NoOp
      [] recording = "failures" /\ op.saved = "none" -> NoOp
      [] OTHER -> op
LoadedKept == IF last'.op = "none" THEN DefaultState ELSE store

\* The labels returned before the operation now taken, once the labels of
\* the peers in `gone` are retired; not kept when the run records streams.
EarlierAfter(gone) ==
    IF recording = "labels"
    THEN {l \in earlier \cup Labels(last.events) : l[1] \notin gone}
    ELSE earlier

Init ==
    /\ store = DefaultState
    /\ nextId = 1
    /\ pushed = [p \in PeerIds |-> 0]
    /\ earlier = {}
    /\ removed = {}
    /\ pre = DefaultState
    /\ last = NoOp
    /\ nsignals = 0
    /\ delivered = [p \in PeerIds |-> <<>>]
    /\ recording = "labels"
    /\ fault = "none"
    /\ nfaults = 0
    /\ inflight = [i \in Instances |-> Idle]
    /\ accepted = {}

\* GET /poll/{room}[?peer_id=..]: handle_join -> ServerState::join_or_poll.
JoinOrPoll(room_id, peer_id) ==
    /\ (peer_id = None \/ peer_id \notin DOMAIN store.peers) => nextId <= MaxPeers
    /\ \E existing_peers \in IterOrders(RoomMembers(store, room_id)) :
         LET r == JoinOrPollFn(store, pushed, room_id, peer_id, nextId, existing_peers)
         IN  /\ store' = SaveFn(store, r.state, fault)
             /\ pushed' = IF fault = "none" THEN r.cnt ELSE pushed
             /\ nextId' = IF r.id = nextId THEN nextId + 1 ELSE nextId
             /\ last' = Kept([NoOp EXCEPT !.op = "join_or_poll", !.room = room_id,
                                          !.peer = peer_id, !.id = r.id,
                                          !.events = r.events, !.status = 200,
                                          !.saved = fault])
             /\ delivered' = IF recording = "streams"
                              THEN [delivered EXCEPT ![r.id] = @ \o Membership(Strings(r.events))]
                              ELSE delivered
    /\ earlier' = EarlierAfter({})
    /\ pre' = LoadedKept
    /\ fault' = "none"
    /\ UNCHANGED <<removed, nsignals, recording, nfaults, inflight, accepted>>

\* POST /signal: handle_signal -> ServerState::queue_event.
HandleSignal(header, body) ==
    /\ body.kind = "Signal" => nsignals < MaxSignals
    /\ LET r == HandleSignalFn(store, pushed, header, body)
       IN  /\ store' = IF r.called THEN SaveFn(store, r.state, fault) ELSE store
           /\ fault' = IF r.called THEN "none" ELSE fault
           /\ pushed' = IF fault = "none" THEN r.cnt ELSE pushed
           /\ nsignals' = IF r.called /\ r.status = 200 THEN nsignals + 1 ELSE nsignals
           /\ last' = Kept([NoOp EXCEPT !.op = "signal", !.peer = body.receiver,
                                        !.sender = header, !.body = body.kind,
                                        !.data = body.data,
                                        !.status = r.status, !.called = r.called,
                                        !.event = r.event, !.result = r.result,
                                        !.saved = IF r.called THEN fault ELSE "none"])
    /\ earlier' = EarlierAfter({})
    /\ pre' = LoadedKept
    /\ UNCHANGED <<nextId, removed, delivered, recording, nfaults, inflight, accepted>>

\* ServerState::remove_peer.
RemovePeer(peer_id) ==
    /\ LET r == RemovePeerFn(store, pushed, peer_id)
           \* the peer was registered and its removal reached the file
           known == peer_id \in DOMAIN store.peers /\ fault = "none"
       IN  /\ store' = SaveFn(store, r.state, fault)
           \* the labels of a removed peer are retired with it
           /\ pushed' = IF known THEN [r.cnt EXCEPT ![peer_id] = 0]
                        ELSE IF fault = "none" THEN r.cnt ELSE pushed
           /\ earlier' = EarlierAfter(IF known THEN {peer_id} ELSE {})
           /\ removed' = IF known THEN removed \cup {peer_id} ELSE removed
           /\ delivered' = IF known THEN [delivered EXCEPT ![peer_id] = <<>>] ELSE delivered
    /\ last' = Kept([NoOp EXCEPT !.op = "remove_peer", !.peer = peer_id, !.saved = fault])
    /\ pre' = LoadedKept
    /\ fault' = "none"
    /\ UNCHANGED <<nextId, nsignals, recording, nfaults, inflight, accepted>>

\* ServerState::get_room_peers.
GetRoomPeers(room_id) ==
    /\ last' = Kept([NoOp EXCEPT !.op = "get_room_peers", !.room = room_id,
                                 !.list = GetRoomPeersFn(store, room_id)])
    /\ earlier' = EarlierAfter({})
    /\ pre' = LoadedKept
    /\ UNCHANGED <<store, nextId, pushed, removed, nsignals, delivered, recording,
                   fault, nfaults, inflight, accepted>>

Next ==
    \/ \E room_id \in Rooms, peer_id \in ClientIds \cup {None} : JoinOrPoll(room_id, peer_id)
    \/ \E req \in SignalRequests : HandleSignal(req.header, req.body)
    \/ \E peer_id \in ClientIds : RemovePeer(peer_id)
    \/ \E room_id \in Rooms : GetRoomPeers(room_id)

Spec == Init /\ [][Next]_vars

\* A registered peer polls: GET /poll/{room}?peer_id=p with its own id.
Poll(peer_id) ==
    /\ peer_id \in DOMAIN store.peers
    /\ \E room_id \in Rooms : JoinOrPoll(room_id, peer_id)

\* The program with clients that keep polling: a registered peer that can
\* poll does so in the end.
SpecFair == Init /\ [][Next]_vars /\ \A p \in PeerIds : WF_vars(Poll(p))

\* The file system makes the next write of the state file fail.
InjectFault(outcome) ==
    /\ fault = "none"
    /\ nfaults < MaxFaults
    /\ fault' = outcome
    /\ nfaults' = nfaults + 1
    /\ UNCHANGED <<store, nextId, pushed, earlier, removed, pre, last, nsignals,
                   delivered, recording, inflight, accepted>>

NextFail ==
    \/ Next
    \/ \E outcome \in {"kept", "truncated"} : InjectFault(outcome)

\* The program on a file system whose writes can fail; the history kept is
\* the last operation when its write failed.
InitFail ==
    /\ store = DefaultState
    /\ nextId = 1
    /\ pushed = [p \in PeerIds |-> 0]
    /\ earlier = {}
    /\ removed = {}
    /\ pre = DefaultState
    /\ last = NoOp
    /\ nsignals = 0
    /\ delivered = [p \in PeerIds |-> <<>>]
    /\ recording = "failures"
    /\ fault = "none"
    /\ nfaults = 0
    /\ inflight = [i \in Instances |-> Idle]
    /\ accepted = {}

SpecFail == InitFail /\ [][NextFail]_vars

----------------------------------------------------------------------------
\* Requests served at the same time: each operation is a load() step, which
\* reads the whole snapshot, and a commit step, which computes the new
\* snapshot from the one loaded and writes it whole.

\* The operations that load and save, with their arguments.
Operations ==
    {[Idle EXCEPT !.op = "join_or_poll", !.room = r, !.peer = p] :
        r \in Rooms, p \in Minted \cup {None}}
    \cup {[Idle EXCEPT !.op = "signal", !.peer = p, !.sender = s, !.data = d] :
             p \in Minted, s \in Minted, d \in Data}
    \cup {[Idle EXCEPT !.op = "remove_peer", !.peer = p] : p \in Minted \ removed}

\* The operation mints an id when it commits; it queues a signal when it commits.
Mints(f) ==
    f.op = "join_or_poll" /\ (f.peer = None \/ f.peer \notin DOMAIN f.state.peers)
Queues(f) == f.op = "signal" /\ f.peer \in DOMAIN f.state.peers

\* Another instance is between its load() and the end of its save().
OthersBusy(i) == \E j \in Instances \ {i} : inflight[j] # Idle

\* What a read or a write of the state file can do besides succeeding whole:
\* while another instance is writing, read_to_string can see a truncated or
\* partial file, and two writes can leave an unparsable one; load() turns
\* either into the default state.
Races(i) == IF OthersBusy(i) /\ nfaults < MaxFaults THEN {"truncated"} ELSE {}

\* InnerState::load: the file as written last, or the default state when its
\* contents do not parse.
LoadFn(file, read) == IF read = "none" THEN file ELSE DefaultState

\* InnerState::load() in instance i, at the start of an operation.  Which
\* instance serves a request does not matter: "b" serves while "a" is busy.
Load(i, operation) ==
    /\ inflight[i] = Idle
    /\ i = "b" => inflight["a"] # Idle
    /\ \E read \in {"none"} \cup Races(i) :
          LET f == [operation EXCEPT !.state = LoadFn(store, read)]
              others == Instances \ {i}
          IN  /\ Mints(f) =>
                    nextId + Cardinality({j \in others : Mints(inflight[j])}) <= MaxPeers
              /\ Queues(f) =>
                    nsignals + Cardinality({j \in others : Queues(inflight[j])}) < MaxSignals
              /\ inflight' = [inflight EXCEPT ![i] = f]
              /\ nfaults' = IF read = "none" THEN nfaults ELSE nfaults + 1
    /\ UNCHANGED <<store, nextId, pushed, earlier, removed, pre, last, nsignals,
                   delivered, recording, fault, accepted>>

\* The push counts of an interleaved run, where pushes are not told apart.
NoCounts == [p \in PeerIds |-> 0]

\* The rest of the operation in instance i: the new snapshot is computed from
\* the one loaded and save() replaces the file with it.
Commit(i) ==
    \E written \in {"none"} \cup Races(i) :
    LET f == inflight[i]
    IN  /\ f # Idle
        /\ nfaults' = IF written = "none" THEN nfaults ELSE nfaults + 1
        /\ \/ /\ f.op = "join_or_poll"
              /\ \E existing_peers \in IterOrders(RoomMembers(f.state, f.room)) :
                    LET r == JoinOrPollFn(f.state, NoCounts, f.room, f.peer, nextId,
                                          existing_peers)
                    IN  /\ store' = SaveFn(store, r.state, written)
                        /\ nextId' = IF r.id = nextId THEN nextId + 1 ELSE nextId
                        /\ accepted' = {e \in accepted : e.to # r.id \/ e \notin Range(r.events)}
              /\ UNCHANGED <<removed, nsignals>>
           \/ /\ f.op = "signal"
              /\ LET body == [kind |-> "Signal", receiver |-> f.peer, data |-> f.data]
                     r == HandleSignalFn(f.state, NoCounts, f.sender, body)
                 IN  /\ store' = SaveFn(store, r.state, written)
                     /\ nsignals' = IF r.result = "Ok" THEN nsignals + 1 ELSE nsignals
                     /\ accepted' = IF r.result = "Ok"
                                    THEN accepted \cup {Entry(r.event, f.peer, 1)}
                                    ELSE accepted
              /\ UNCHANGED <<nextId, removed>>
           \/ /\ f.op = "remove_peer"
              /\ LET r == RemovePeerFn(f.state, NoCounts, f.peer)
                     known == f.peer \in DOMAIN f.state.peers
                 IN  /\ store' = SaveFn(store, r.state, written)
                     /\ removed' = IF known THEN removed \cup {f.peer} ELSE removed
                     /\ accepted' = IF known THEN {e \in accepted : e.to # f.peer}
                                    ELSE accepted
              /\ UNCHANGED <<nextId, nsignals>>
        /\ inflight' = [inflight EXCEPT ![i] = Idle]
        /\ UNCHANGED <<pushed, earlier, pre, last, delivered, recording, fault>>

NextConc ==
    \/ \E i \in Instances, operation \in Operations : Load(i, operation)
    \/ \E i \in Instances : Commit(i)

\* The program with two instances serving requests at the same time; the
\* history kept is the peers removed and the signals accepted.
InitConc ==
    /\ store = DefaultState
    /\ nextId = 1
    /\ pushed = [p \in PeerIds |-> 0]
    /\ earlier = {}
    /\ removed = {}
    /\ pre = DefaultState
    /\ last = NoOp
    /\ nsignals = 0
    /\ delivered = [p \in PeerIds |-> <<>>]
    /\ recording = "none"
    /\ fault = "none"
    /\ nfaults = 0
    /\ inflight = [i \in Instances |-> Idle]
    /\ accepted = {}

SpecConc == InitConc /\ [][NextConc]_vars

\* The same program, with the delivered streams recorded instead of the
\* labels and the last operation.
InitStreams ==
    /\ store = DefaultState
    /\ nextId = 1
    /\ pushed = [p \in PeerIds |-> 0]
    /\ earlier = {}
    /\ removed = {}
    /\ pre = DefaultState
    /\ last = NoOp
    /\ nsignals = 0
    /\ delivered = [p \in PeerIds |-> <<>>]
    /\ recording = "streams"
    /\ fault = "none"
    /\ nfaults = 0
    /\ inflight = [i \in Instances |-> Idle]
    /\ accepted = {}

SpecStreams == InitStreams /\ [][Next]_vars

----------------------------------------------------------------------------
\* Vocabulary of the properties.

\* The last operation was join_or_poll with the id of a registered peer.
IsPoll ==
    /\ last.op = "join_or_poll"
    /\ last.peer # None
    /\ last.peer \in DOMAIN pre.peers

\* The last operation was join_or_poll without an id, or with an unknown one.
IsJoin ==
    /\ last.op = "join_or_poll"
    /\ (last.peer = None \/ last.peer \notin DOMAIN pre.peers)

\* The labels of the events join_or_poll has returned to peer p, the last
\* operation included.
ReturnedTo(p) == {l \in earlier \cup Labels(last.events) : l[1] = p}

----------------------------------------------------------------------------
\* C1: a poll returns exactly the events pushed onto the peer's queue since
\* the peer's previous join_or_poll, in push order, and leaves the queue
\* empty; no event is returned by two join_or_poll calls.  With the pushes
\* onto p's queue numbered 1, 2, ..: no event returned by the last operation
\* was returned before; the events returned to p so far are the pushes 1..m,
\* the queue holds the pushes m+1..pushed[p] in order; and a poll returns the
\* whole queue it found.
C1_PollDeliversOnce ==
    /\ Labels(last.events) \cap earlier = {}
    /\ Cardinality(Labels(last.events)) = Len(last.events)
    /\ \A p \in DOMAIN store.peers :
          LET q == store.peers[p].events
              m == pushed[p] - Len(q)
          IN  /\ m >= 0
              /\ \A i \in 1..Len(q) : q[i].to = p /\ q[i].n = m + i
              /\ ReturnedTo(p) = {<<p, k>> : k \in 1..m}
    /\ IsPoll =>
          /\ last.id = last.peer
          /\ last.events = pre.peers[last.peer].events
          /\ last.peer \in DOMAIN store.peers
          /\ store.peers[last.peer].events = <<>>

\* Peer 1 polls a second time and gets two events pushed after its first poll.
C1_Witness ==
    /\ IsPoll
    /\ last.peer = 1
    /\ Len(last.events) >= 2
    /\ last.events[1].n >= 3

----------------------------------------------------------------------------
\* C2: a new join into a room with N members returns N+1 events: first
\* IdAssigned(newId), newId being the returned id, then exactly one
\* NewPeer(m) for each member m; afterwards the new peer's stored queue is
\* empty and newId is a member of the room.
C2_JoinResponse ==
    IsJoin =>
        LET members == RoomMembers(pre, last.room)
            ev == Strings(last.events)
        IN  /\ last.id \notin DOMAIN pre.peers
            /\ Len(ev) = Cardinality(members) + 1
            /\ ev[1] = IdAssigned(last.id)
            /\ {ev[i] : i \in 2..Len(ev)} = {NewPeer(m) : m \in members}
            /\ last.id \in DOMAIN store.peers
            /\ store.peers[last.id].events = <<>>
            /\ store.peers[last.id].room = last.room
            /\ last.id \in RoomMembers(store, last.room)

\* A join into a room that has a member.
C2_Witness ==
    /\ IsJoin
    /\ RoomMembers(pre, last.room) # {}
    /\ Len(last.events) = Cardinality(RoomMembers(pre, last.room)) + 1

----------------------------------------------------------------------------
\* C3: a new join appends exactly one NewPeer(newId) to the tail of the queue
\* of every peer that was a member of the room, after the events already
\* pending there, and changes no other peer's queue.
C3_JoinFanOut ==
    IsJoin =>
        \A p \in DOMAIN pre.peers :
            /\ p \in DOMAIN store.peers
            /\ IF p \in RoomMembers(pre, last.room)
               THEN LET old == pre.peers[p].events
                        new == store.peers[p].events
                    IN  /\ Len(new) = Len(old) + 1
                        /\ SubSeq(new, 1, Len(old)) = old
                        /\ new[Len(new)].ev = NewPeer(last.id)
               ELSE store.peers[p] = pre.peers[p]

\* A join into a room one of whose members has an event pending.
C3_Witness ==
    /\ IsJoin
    /\ \E p \in RoomMembers(pre, last.room) :
          /\ pre.peers[p].events # <<>>
          /\ Len(store.peers[p].events) = Len(pre.peers[p].events) + 1

----------------------------------------------------------------------------
\* The last operation was remove_peer for a registered peer.
IsRemoval == last.op = "remove_peer" /\ last.peer \in DOMAIN pre.peers

\* The last operation was remove_peer for an id not in the registry.
IsRemovalOfUnknown == last.op = "remove_peer" /\ last.peer \notin DOMAIN pre.peers

\* C4: remove_peer(p) for a registered p deletes p's PeerState, takes p out
\* of its room's member set and appends exactly one PeerLeft(p) to the queue
\* of each remaining member of that room, and to no other queue; no event of
\* the queue of a removed peer is returned by a later join_or_poll.
C4_RemoveFanOut ==
    /\ IsRemoval =>
          LET p == last.peer
              room == pre.peers[p].room
          IN  /\ DOMAIN store.peers = DOMAIN pre.peers \ {p}
              /\ DOMAIN store.rooms = DOMAIN pre.rooms
              /\ \A r \in DOMAIN pre.rooms :
                    store.rooms[r] = IF r = room THEN pre.rooms[r] \ {p} ELSE pre.rooms[r]
              /\ \A q \in DOMAIN store.peers :
                    IF q \in RoomMembers(pre, room)
                    THEN LET old == pre.peers[q].events
                             new == store.peers[q].events
                         IN  /\ Len(new) = Len(old) + 1
                             /\ SubSeq(new, 1, Len(old)) = old
                             /\ new[Len(new)].ev = PeerLeft(p)
                    ELSE store.peers[q] = pre.peers[q]
    /\ last.op = "join_or_poll" =>
          \A i \in 1..Len(last.events) : last.events[i].to \notin removed

\* A peer with an event pending is removed from a room that has another member.
C4_Witness ==
    /\ IsRemoval
    /\ pre.peers[last.peer].events # <<>>
    /\ RoomMembers(store, pre.peers[last.peer].room) # {}

----------------------------------------------------------------------------
\* C5: remove_peer for an id not in the registry leaves the snapshot as it
\* was, and remove_peer is idempotent: in every reachable state, removing p
\* twice gives the snapshot that removing p once gives.
C5_RemoveUnknownNoOp ==
    /\ IsRemovalOfUnknown => store = pre
    /\ \A p \in ClientIds :
          LET once == RemovePeerFn(store, pushed, p)
              twice == RemovePeerFn(once.state, once.cnt, p)
          IN  twice.state = once.state

\* remove_peer is called again for a removed peer while others are registered.
C5_Witness ==
    /\ IsRemovalOfUnknown
    /\ last.peer \in removed
    /\ DOMAIN store.peers # {}

----------------------------------------------------------------------------
\* The last operation was a signal request that reached queue_event.
IsQueueEvent == last.op = "signal" /\ last.called

\* C6: queue_event for a receiver not in the registry returns UnknownPeer,
\* the snapshot saved equals the snapshot loaded, and the answer is 404.
C6_UnknownReceiver ==
    (IsQueueEvent /\ last.peer \notin DOMAIN pre.peers) =>
        /\ last.result = "UnknownPeer"
        /\ last.status = 404
        /\ store = pre

\* A signal for an unknown receiver while a peer is registered.
C6_Witness ==
    /\ IsQueueEvent
    /\ last.peer \notin DOMAIN pre.peers
    /\ last.status = 404
    /\ DOMAIN pre.peers # {}

----------------------------------------------------------------------------
\* C7: a successful queue_event(receiver, payload) appends the payload as the
\* last element of the receiver's queue and changes nothing else.
C7_QueueEventFrame ==
    (IsQueueEvent /\ last.result = "Ok") =>
        LET r == last.peer IN
        /\ r \in DOMAIN pre.peers
        /\ store.rooms = pre.rooms
        /\ DOMAIN store.peers = DOMAIN pre.peers
        /\ store.peers[r].room = pre.peers[r].room
        /\ LET old == pre.peers[r].events
               new == store.peers[r].events
           IN  /\ Len(new) = Len(old) + 1
               /\ SubSeq(new, 1, Len(old)) = old
               /\ new[Len(new)].ev = last.event
        /\ \A q \in DOMAIN pre.peers \ {r} : store.peers[q] = pre.peers[q]

\* A signal is queued behind a pending event while a room-mate is registered.
C7_Witness ==
    /\ IsQueueEvent
    /\ last.result = "Ok"
    /\ pre.peers[last.peer].events # <<>>
    /\ RoomMembers(pre, pre.peers[last.peer].room) # {last.peer}

----------------------------------------------------------------------------
\* C8: the two registries agree: every registered peer is a member of
\* exactly one room, the room of its PeerState, and every member of a room
\* is a registered peer whose PeerState names that room.
C8_RegistriesAgree ==
    /\ \A p \in DOMAIN store.peers :
          {r \in DOMAIN store.rooms : p \in store.rooms[r]} = {store.peers[p].room}
    /\ \A r \in DOMAIN store.rooms :
          \A p \in store.rooms[r] :
              p \in DOMAIN store.peers /\ store.peers[p].room = r

\* A peer was removed, leaving an empty room, and another room has a member.
C8_Witness ==
    /\ removed # {}
    /\ \E r \in DOMAIN store.rooms : store.rooms[r] = {}
    /\ \E r \in DOMAIN store.rooms : store.rooms[r] # {}

----------------------------------------------------------------------------
\* C9: get_room_peers(room) returns the room's member set, which is the set
\* of the registered peers whose room is `room`: the empty set for a room
\* never joined and for a room whose members were all removed; it leaves the
\* snapshot as it was.
C9_ListRoomPeers ==
    last.op = "get_room_peers" =>
        /\ last.list = RoomMembers(store, last.room)
        /\ last.list = {p \in DOMAIN store.peers : store.peers[p].room = last.room}
        /\ last.room \notin DOMAIN store.rooms => last.list = {}
        /\ store = pre

\* The peers of a room all of whose members were removed are listed while
\* another peer is registered.
C9_Witness ==
    /\ last.op = "get_room_peers"
    /\ last.room \in DOMAIN store.rooms
    /\ last.list = {}
    /\ DOMAIN store.peers # {}

----------------------------------------------------------------------------
\* The last operation appended a Signal event to the queue of last.peer.
SignalAppended ==
    /\ IsQueueEvent
    /\ last.peer \in DOMAIN pre.peers
    /\ last.peer \in DOMAIN store.peers
    /\ Len(store.peers[last.peer].events) = Len(pre.peers[last.peer].events) + 1

\* C10 as stated: whenever a Signal event with sender s is appended to the
\* queue of receiver r, s is a registered peer and a member of r's room.
C10_SameRoomOnly ==
    SignalAppended =>
        LET ev == store.peers[last.peer].events[Len(store.peers[last.peer].events)].ev
        IN  /\ ev.type = "Signal"
            /\ ev.peer \in DOMAIN pre.peers
            /\ pre.peers[ev.peer].room = pre.peers[last.peer].room

\* C10 as amended: a Signal event is appended exactly when the request has a
\* parsable sender header and a registered receiver; the event names the
\* sender the header gave, and the sender's registration and room are not
\* looked at.
C10_AnySenderToRegisteredReceiver ==
    /\ SignalAppended =>
          LET ev == store.peers[last.peer].events[Len(store.peers[last.peer].events)].ev
          IN  /\ last.sender # None
              /\ ev = Signal(last.sender, last.data)
    /\ (last.op = "signal" /\ last.body = "Signal" /\ last.sender # None
            /\ last.peer \in DOMAIN pre.peers) =>
          /\ SignalAppended
          /\ last.status = 200

\* A signal is queued whose sender is registered in a room other than the
\* receiver's.
C10_Witness ==
    /\ SignalAppended
    /\ last.sender \in DOMAIN pre.peers
    /\ pre.peers[last.sender].room # pre.peers[last.peer].room

----------------------------------------------------------------------------
\* The push counts, extended to the ids new_v4 would hand out next, for
\* following a sequence of operations from the current snapshot.
CountsAhead == [p \in 1..(MaxPeers + 3) |-> IF p \in PeerIds THEN pushed[p] ELSE 0]

\* C11: from any stored snapshot in which room R has no member, the sequence
\* join A into R, join B into R, poll A, remove B, poll A gives: A's join
\* returns [IdAssigned(A)]; B's join returns [IdAssigned(B), NewPeer(A)] and
\* leaves A's queue equal to [NewPeer(B)]; A's first poll returns [NewPeer(B)]
\* and empties A's queue; removing B leaves A's queue equal to [PeerLeft(B)];
\* A's second poll returns [PeerLeft(B)].
C11_JoinPollLeaveScenario ==
    \A R \in Rooms :
        RoomMembers(store, R) = {} =>
            \A o1 \in IterOrders(RoomMembers(store, R)) :
                LET joinA == JoinOrPollFn(store, CountsAhead, R, None, nextId, o1)
                    pA == joinA.id
                IN  \A o2 \in IterOrders(RoomMembers(joinA.state, R)) :
                        LET joinB == JoinOrPollFn(joinA.state, joinA.cnt, R, None, nextId + 1, o2)
                            pB == joinB.id
                            poll1 == JoinOrPollFn(joinB.state, joinB.cnt, R, pA, nextId + 2, <<>>)
                            leave == RemovePeerFn(poll1.state, poll1.cnt, pB)
                            poll2 == JoinOrPollFn(leave.state, leave.cnt, R, pA, nextId + 2, <<>>)
                        IN  /\ pA # pB
                            /\ Strings(joinA.events) = <<IdAssigned(pA)>>
                            /\ Strings(joinB.events) = <<IdAssigned(pB), NewPeer(pA)>>
                            /\ Strings(joinB.state.peers[pA].events) = <<NewPeer(pB)>>
                            /\ poll1.id = pA
                            /\ Strings(poll1.events) = <<NewPeer(pB)>>
                            /\ poll1.state.peers[pA].events = <<>>
                            /\ Strings(leave.state.peers[pA].events) = <<PeerLeft(pB)>>
                            /\ poll2.id = pA
                            /\ Strings(poll2.events) = <<PeerLeft(pB)>>

\* The sequence has been run from the initial state: two ids were handed
\* out, the second peer was removed, and the first, alone in its room with an
\* empty queue after three pushes, has been told NewPeer(2) and PeerLeft(2).
C11_Witness ==
    /\ nextId = 3
    /\ removed = {2}
    /\ DOMAIN store.peers = {1}
    /\ RoomMembers(store, store.peers[1].room) = {1}
    /\ store.peers[1].events = <<>>
    /\ pushed[1] = 3
    /\ delivered[1] = <<NewPeer(2), PeerLeft(2)>>

\* C14: join_or_poll with an id that is not in the peer registry (never
\* issued, or removed) is a new join: the id returned is freshly minted, it
\* differs from the id supplied, from every registered id and from every removed
\* id; the response is that of a join; the supplied id is not put in the
\* registry; and no removed id is ever registered again.
C14_UnknownIdIsNewJoin ==
    /\ (IsJoin /\ last.peer # None) =>
          /\ last.id # last.peer
          /\ last.id \notin DOMAIN pre.peers
          /\ last.id \notin removed
          /\ last.id = nextId - 1
          /\ last.id \in DOMAIN store.peers
          /\ store.peers[last.id].room = last.room
          /\ last.events # <<>>
          /\ Strings(last.events)[1] = IdAssigned(last.id)
          /\ Len(last.events) = 1 + Cardinality(RoomMembers(pre, last.room))
          /\ last.peer \notin DOMAIN store.peers
          /\ DOMAIN store.peers = DOMAIN pre.peers \cup {last.id}
    /\ removed \cap DOMAIN store.peers = {}
    /\ \A r \in DOMAIN store.rooms : removed \cap store.rooms[r] = {}

\* A removed peer calls join_or_poll with its old id and is registered under a
\* new one.
C14_Witness ==
    /\ IsJoin
    /\ last.peer \in removed
    /\ last.id \in DOMAIN store.peers
    /\ last.id # last.peer

\* C15: a poll by a registered peer ignores the room of the request: it
\* returns the peer's own id and the whole queue it loaded, leaves the room
\* registry and the peer's recorded room as they were (the peer is not moved
\* into the named room and no entry is made for that room), changes no other
\* peer's PeerState, and gives the same result and the same snapshot for every
\* room argument.
C15_PollIgnoresRoom ==
    /\ IsPoll =>
          /\ last.id = last.peer
          /\ last.events = pre.peers[last.peer].events
          /\ store.rooms = pre.rooms
          /\ DOMAIN store.peers = DOMAIN pre.peers
          /\ store.peers[last.peer].room = pre.peers[last.peer].room
          /\ \A q \in DOMAIN pre.peers \ {last.peer} : store.peers[q] = pre.peers[q]
    /\ \A p \in DOMAIN store.peers :
          \A r1 \in Rooms, r2 \in Rooms :
             JoinOrPollFn(store, pushed, r1, p, nextId, <<>>)
                = JoinOrPollFn(store, pushed, r2, p, nextId, <<>>)

\* A peer polls with a room that is not its own and has no entry in the room
\* registry, and is handed its pending events.
C15_Witness ==
    /\ IsPoll
    /\ last.room # pre.peers[last.peer].room
    /\ last.room \notin DOMAIN pre.rooms
    /\ last.events # <<>>
    /\ DOMAIN pre.peers # {last.peer}

\* C16: a signal request whose X-Peer-Id header is missing or is not a uuid
\* is answered 400 without a call of queue_event, whatever its body, and the
\* stored snapshot is the one loaded; a signal request with a parsed sender and
\* a receiver that is not registered is answered 404.
C16_BadSenderAndUnknownReceiver ==
    /\ (last.op = "signal" /\ last.sender = None) =>
          /\ last.status = 400
          /\ ~last.called
          /\ last.event = NoEvent
          /\ store = pre
    /\ (last.op = "signal" /\ last.sender # None /\ last.body = "Signal"
            /\ last.peer \notin DOMAIN pre.peers) =>
          /\ last.status = 404
          /\ last.called
          /\ last.result = "UnknownPeer"

\* A request without a usable header names a registered receiver and carries
\* a well-formed Signal body: the only thing wrong with it is the sender.
C16_Witness ==
    /\ last.op = "signal"
    /\ last.sender = None
    /\ last.body = "Signal"
    /\ last.peer \in DOMAIN pre.peers
    /\ last.status = 400
    /\ pre.peers # EmptyMap

\* A registered sender signals a receiver that is not registered.
C16_WitnessUnknownReceiver ==
    /\ last.op = "signal"
    /\ last.sender \in DOMAIN pre.peers
    /\ last.body = "Signal"
    /\ last.peer \notin DOMAIN pre.peers
    /\ last.status = 404

\* Snapshot b differs from snapshot a in room R only: every peer of a whose
\* room is not R has the same PeerState in b, and every other room has the
\* same member set (and an entry in b exactly if it has one in a).
SameOutside(a, b, R) ==
    /\ \A q \in DOMAIN a.peers :
          a.peers[q].room # R => (q \in DOMAIN b.peers /\ b.peers[q] = a.peers[q])
    /\ \A r \in (DOMAIN a.rooms \cup DOMAIN b.rooms) \ {R} :
          /\ r \in DOMAIN a.rooms
          /\ r \in DOMAIN b.rooms
          /\ b.rooms[r] = a.rooms[r]

\* C17: a new join into room R, and a remove_peer of a member of R, leave
\* unchanged the PeerState (room and queue) of every peer whose room is not R
\* and the member set of every room other than R.
C17_FanOutConfined ==
    /\ IsJoin => SameOutside(pre, store, last.room)
    /\ IsRemoval => SameOutside(pre, store, pre.peers[last.peer].room)

\* A peer joins a room while a peer of another room has events pending.
C17_Witness ==
    /\ IsJoin
    /\ \E q \in DOMAIN pre.peers :
          /\ pre.peers[q].room # last.room
          /\ pre.peers[q].events # <<>>
          /\ store.peers[q] = pre.peers[q]

\* A member of one room is removed while another room has a member.
C17_WitnessRemoval ==
    /\ IsRemoval
    /\ \E q \in DOMAIN pre.peers :
          /\ pre.peers[q].room # pre.peers[last.peer].room
          /\ store.peers[q] = pre.peers[q]

\* The membership events of peer q in the order it receives them: those
\* already returned to it, then those waiting in its queue.
Stream(q) == delivered[q] \o Membership(Strings(store.peers[q].events))

\* C18: in the events delivered to a registered peer q, and in those still to
\* be delivered, PeerLeft(p) occurs at most once for each p, only after a
\* NewPeer(p), and no NewPeer(p) follows a PeerLeft(p); and of two peers
\* registered in the same room each has been enqueued exactly one NewPeer
\* naming the other.
C18_MembershipStream ==
    \A q \in DOMAIN store.peers :
        LET s == Stream(q)
        IN  /\ \A p \in PeerIds :
                  /\ Cardinality({i \in DOMAIN s : s[i] = PeerLeft(p)}) <= 1
                  /\ \A i \in DOMAIN s :
                        s[i] = PeerLeft(p) => \E j \in 1..(i - 1) : s[j] = NewPeer(p)
                  /\ \A i \in DOMAIN s, j \in DOMAIN s :
                        (i < j /\ s[i] = PeerLeft(p)) => s[j] # NewPeer(p)
            /\ \A p \in DOMAIN store.peers \ {q} :
                  store.peers[p].room = store.peers[q].room =>
                      Cardinality({i \in DOMAIN s : s[i] = NewPeer(p)}) = 1

\* A peer has been delivered NewPeer(p) and then, by a later poll, PeerLeft(p).
C18_Witness ==
    \E q \in DOMAIN store.peers, p \in removed :
        /\ delivered[q] = <<NewPeer(p), PeerLeft(p)>>
        /\ store.peers[q].events = <<>>

\* Two peers of one room have each been told of the other.
C18_WitnessPair ==
    \E p \in DOMAIN store.peers, q \in DOMAIN store.peers :
        /\ p # q
        /\ store.peers[p].room = store.peers[q].room
        /\ delivered[p] = <<NewPeer(q)>>
        /\ delivered[q] = <<NewPeer(p)>>

\* The most push_back calls one queue can see in a run: IdAssigned, a NewPeer
\* and a PeerLeft for each other peer, and the signals.
MaxLabel == 2 * MaxPeers - 1 + MaxSignals

\* The event of the k-th push onto p's queue is waiting in the queue.
Pending(p, k) ==
    /\ p \in DOMAIN store.peers
    /\ \E i \in DOMAIN store.peers[p].events : store.peers[p].events[i].n = k

\* The last operation returned the event of the k-th push onto p's queue to p.
Returned(p, k) ==
    /\ last.op = "join_or_poll"
    /\ last.id = p
    /\ <<p, k>> \in Labels(last.events)

\* C12: with clients that keep polling, every event appended to the queue of
\* a peer is in the end returned to that peer unless the peer is removed, and
\* every poll returns all the events waiting when it is made, so an event is
\* returned by the first poll of its peer that follows the append.
C12_EventuallyDelivered ==
    /\ \A p \in PeerIds, k \in 1..MaxLabel :
          Pending(p, k) ~> (Returned(p, k) \/ p \notin DOMAIN store.peers)
    /\ [](IsPoll => /\ last.events = pre.peers[last.peer].events
                    /\ store.peers[last.peer].events = <<>>)
    /\ [](\A p \in PeerIds : pushed[p] <= MaxLabel)

\* An event appended after a peer's join has been returned by that peer's poll.
C12_Witness ==
    /\ IsPoll
    /\ \E k \in 1..MaxLabel :
          /\ Returned(last.peer, k)
          /\ k > 1
          /\ \E i \in DOMAIN pre.peers[last.peer].events :
                pre.peers[last.peer].events[i].n = k

\* The last operation called save() and the write failed.
CommitFailed == last.saved # "none"

\* The last operation answered what it answers when the write succeeds.
NormalResult ==
    /\ IsPoll =>
          /\ last.status = 200
          /\ last.id = last.peer
          /\ last.events = pre.peers[last.peer].events
    /\ IsJoin =>
          /\ last.status = 200
          /\ last.id = nextId - 1
          /\ Len(last.events) = 1 + Cardinality(RoomMembers(pre, last.room))
          /\ Strings(last.events)[1] = IdAssigned(last.id)
          /\ {Strings(last.events)[i] : i \in 2..Len(last.events)}
                = {NewPeer(q) : q \in RoomMembers(pre, last.room)}
    /\ (last.op = "signal" /\ last.called) =>
          /\ last.result = IF last.peer \in DOMAIN pre.peers THEN "Ok" ELSE "UnknownPeer"
          /\ last.status = IF last.peer \in DOMAIN pre.peers THEN 200 ELSE 404

\* The next join_or_poll with the id the last one returned hands out the same
\* events again.
NextPollRepeats ==
    \A R \in Rooms :
        \A o \in IterOrders(RoomMembers(store, R)) :
            LET r == JoinOrPollFn(store, CountsAhead, R, last.id, nextId, o)
            IN  r.id = last.id /\ r.events = last.events

\* The next join_or_poll with the id the last one returned is a new join.
NextCallIsNewJoin ==
    /\ last.id \notin DOMAIN store.peers
    /\ \A R \in Rooms :
          \A o \in IterOrders(RoomMembers(store, R)) :
              LET r == JoinOrPollFn(store, CountsAhead, R, last.id, nextId, o)
              IN  /\ r.id = nextId
                  /\ r.id # last.id
                  /\ Strings(r.events)[1] = IdAssigned(nextId)

\* C20 as stated: a failed write is not reported and the store keeps the
\* snapshot the operation loaded, so a poll's events are returned again by the
\* next poll and the id a join returned is unknown to the next join_or_poll.
C20_FailedCommitKeepsSnapshot ==
    CommitFailed =>
        /\ NormalResult
        /\ store = pre
        /\ IsPoll => NextPollRepeats
        /\ IsJoin => NextCallIsNewJoin

\* C20, amended: a failed write is not reported.  When the file could not be
\* opened the store keeps the snapshot the operation loaded, a poll's events
\* are returned again by the next poll and the id a join returned is unknown to
\* the next join_or_poll.  When the write failed after the file was truncated
\* the next operation loads the default state: every peer is unknown, and the
\* next join_or_poll with the id just returned is a new join.
C20_FailedCommitSilent ==
    CommitFailed =>
        /\ NormalResult
        /\ last.saved = "kept" =>
              /\ store = pre
              /\ IsPoll => NextPollRepeats
              /\ IsJoin => NextCallIsNewJoin
        /\ last.saved = "truncated" =>
              /\ store = DefaultState
              /\ last.op = "join_or_poll" => NextCallIsNewJoin

\* A poll returned pending events, its write failed, and the events are still
\* stored.
C20_Witness ==
    /\ IsPoll
    /\ last.saved = "kept"
    /\ last.events # <<>>
    /\ store.peers[last.peer].events = last.events

\* A join returned an id and its write failed.
C20_WitnessJoin ==
    /\ IsJoin
    /\ last.saved = "kept"
    /\ pre.peers # EmptyMap
    /\ last.id \notin DOMAIN store.peers

\* A poll returned pending events and its write failed after the truncation.
C20_WitnessTruncated ==
    /\ IsPoll
    /\ last.saved = "truncated"
    /\ last.events # <<>>
    /\ store = DefaultState

\* The snapshots an operation can compute from the snapshot it loaded, the
\* next id new_v4 returns being `fresh`.
Computed(f, fresh) ==
    CASE f.op = "join_or_poll" ->
            {JoinOrPollFn(f.state, NoCounts, f.room, f.peer, fresh, o).state :
                o \in IterOrders(RoomMembers(f.state, f.room))}
      [] f.op = "signal" ->
            {QueueEventFn(f.state, NoCounts, f.peer, Signal(f.sender, f.data)).state}
      [] f.op = "remove_peer" ->
            {RemovePeerFn(f.state, NoCounts, f.peer).state}
      [] OTHER -> {}

\* Instance i commits in this step, and its write is not disturbed.
Commits(i) ==
    /\ inflight[i] # Idle
    /\ inflight'[i] = Idle
    /\ nfaults' = nfaults

\* C13: when operations interleave, a commit replaces the stored snapshot by
\* one computed from the snapshot its operation loaded, whatever was
\* committed in between: the later commit overwrites the earlier one.  In
\* particular no peer is registered afterwards but those of the loaded
\* snapshot and the one the operation minted.
C13_LaterCommitOverwrites ==
    [][\A i \in Instances :
          Commits(i) =>
              /\ store' \in Computed(inflight[i], nextId)
              /\ DOMAIN store'.peers \subseteq DOMAIN inflight[i].state.peers \cup {nextId}]_vars

\* A lost update, reached without a disturbed read or write: an id that a
\* join returned is not registered although remove_peer was never called for
\* it, while another peer is registered and no operation is under way.
C13_Witness ==
    /\ nfaults = 0
    /\ \A i \in Instances : inflight[i] = Idle
    /\ store.peers # EmptyMap
    /\ \E id \in Minted : id \notin DOMAIN store.peers /\ id \notin removed

\* The other lost update: queue_event returned Ok for a signal, the receiver
\* is registered and was never removed, the signal was returned by no poll,
\* and it is not in the receiver's queue.
C13_WitnessSignal ==
    /\ nfaults = 0
    /\ \A i \in Instances : inflight[i] = Idle
    /\ \E e \in accepted :
          /\ e.to \in DOMAIN store.peers
          /\ e.to \notin removed
          /\ e \notin Range(store.peers[e.to].events)

\* The registry consistency of a snapshot: each registered peer is a member
\* of exactly the room its PeerState names, and each member of a room is
\* registered with that room.
Consistent(state) ==
    /\ \A p \in DOMAIN state.peers :
          \A r \in DOMAIN state.rooms :
              p \in state.rooms[r] <=> r = state.peers[p].room
    /\ \A p \in DOMAIN state.peers : state.peers[p].room \in DOMAIN state.rooms
    /\ \A r \in DOMAIN state.rooms : state.rooms[r] \subseteq DOMAIN state.peers

\* C19: however loads and commits interleave, every snapshot committed to
\* the store, and so every snapshot an operation loads, satisfies the registry
\* consistency.
C19_CommittedSnapshotsConsistent ==
    /\ Consistent(store)
    /\ \A i \in Instances : Consistent(inflight[i].state)

\* A snapshot committed by an operation that had loaded a snapshot older
\* than the one it replaced: it holds a peer that a commit made in between had
\* removed, next to the peer that commit notified.
C19_Witness ==
    /\ nfaults = 0
    /\ \E p \in removed :
          /\ p \in DOMAIN store.peers
          /\ \E q \in DOMAIN store.peers \ {p} : store.peers[q].room = store.peers[p].room

====
